---- MODULE Spec2Model ----
(***************************************************************************)
(* Model of src/app.py: a Streamlit dashboard script.  One execution of    *)
(* the script (a "rerun") loads the cached table, reads the sidebar        *)
(* widgets, filters the table, computes the quick statistics and renders   *)
(* the selected analysis page.  Every widget change triggers a rerun.      *)
(*                                                                         *)
(* Values: a missing number (NaN) or missing timestamp (NaT) is the empty  *)
(* sequence, a present value v is <<v>>; a timestamp is <<y, m, d>>.       *)
(* A mean is NaN or the exact fraction <<sum, count>>.                     *)
(***************************************************************************)
EXTENDS Integers, Sequences, FiniteSets

VARIABLES pc, csv, cache, df, analysis_focus, year_filter, condition_filter,
          age_range, filtered_df, avg_stay, avg_bill, recovery_rate,
          top_percentages, fig_age, percentage_of_total

vars == <<pc, csv, cache, df, analysis_focus, year_filter, condition_filter,
          age_range, filtered_df, avg_stay, avg_bill, recovery_rate,
          top_percentages, fig_age, percentage_of_total>>

(* ---------------- bounds of the explored inputs ---------------- *)
MaxRows == 2

(* ---------------- missing values ---------------- *)
NaN == <<>>
NaT == <<>>
Some(v) == <<v>>
IsNull(x) == x = <<>>

(* ---------------- sequence helpers ---------------- *)
RECURSIVE SumSeq(_)
SumSeq(s) == IF s = <<>> THEN 0 ELSE Head(s) + SumSeq(Tail(s))

Range(s) == {s[i] : i \in 1..Len(s)}
SeqsUpTo(S, n) == UNION {[1..k -> S] : k \in 0..n}

(* ---------------- pd.to_datetime(..., errors='coerce') ---------------- *)
IsLeap(y) == (y % 4 = 0 /\ y % 100 # 0) \/ y % 400 = 0

DaysInMonth(y, m) ==
    IF m = 2 THEN (IF IsLeap(y) THEN 29 ELSE 28)
    ELSE IF m \in {4, 6, 9, 11} THEN 30 ELSE 31

\* text is the triple of numbers written in the cell; text that is not a
\* date at all is written <<0, 0, 0>>
to_datetime(text) ==
    IF /\ text[1] >= 1
       /\ text[2] \in 1..12
       /\ text[3] >= 1
       /\ text[3] <= DaysInMonth(text[1], text[2])
    THEN text
    ELSE NaT

\* days from 0001-01-01 to the timestamp (proleptic Gregorian ordinal)
RECURSIVE DaysBeforeMonth(_, _)
DaysBeforeMonth(y, m) ==
    IF m = 1 THEN 0 ELSE DaysBeforeMonth(y, m - 1) + DaysInMonth(y, m - 1)

DaysBeforeYear(y) ==
    LET p == y - 1 IN p * 365 + (p \div 4) - (p \div 100) + (p \div 400)

Ordinal(ts) == DaysBeforeYear(ts[1]) + DaysBeforeMonth(ts[1], ts[2]) + ts[3]

\* variant: the missing difference is filled with 0
StayDaysFilled(discharge, admission) ==
    IF IsNull(discharge) \/ IsNull(admission)
    THEN Some(0)
    ELSE Some(Ordinal(discharge) - Ordinal(admission))

\* (discharge_date - date_of_admission).dt.days
StayDays(discharge, admission) ==
    IF IsNull(discharge) \/ IsNull(admission)
    THEN NaN
    ELSE Some(Ordinal(discharge) - Ordinal(admission))

\* variant: the sign is dropped instead of the value being floored
ClipLowerAbs(x) == IF x < 0 THEN 0 - x ELSE x

\* Series.clip(lower=0) on one cell
ClipLower(x) == IF x < 0 THEN 0 ELSE x

\* .dt.year on one cell
YearOf(ts) == IF IsNull(ts) THEN NaN ELSE Some(ts[1])

(* ---------------- load_data ---------------- *)
RawColumns == {"date_of_admission", "discharge_date", "age",
               "medical_condition", "billing_amount", "test_results",
               "hospital"}

LoadRow(r, i) ==
    LET adm == to_datetime(r.date_of_admission)
        dis == to_datetime(r.discharge_date)
    IN [index |-> i,
        date_of_admission |-> adm,
        discharge_date |-> dis,
        length_of_stay |-> StayDays(dis, adm),
        age |-> r.age,
        medical_condition |-> r.medical_condition,
        billing_amount |-> ClipLower(r.billing_amount),
        test_results |-> r.test_results,
        hospital |-> r.hospital,
        kelompok_usia |-> NaN]

load_data(file) ==
    [columns |-> RawColumns \cup {"length_of_stay"},
     rows |-> [i \in 1..Len(file) |-> LoadRow(file[i], i)]]

(* ---------------- sidebar widgets (lines 63-87) ---------------- *)
Pages == {"Tren Penyakit", "Biaya Pengobatan", "Perbandingan Demografis Pasien"}
FirstPage == "Tren Penyakit"
Demografis == "Perbandingan Demografis Pasien"

SemuaTahun == <<>>
SemuaKondisi == "Semua Kondisi"
DefaultAgeRange == <<13, 89>>

\* options of the "Periode Waktu" selectbox: the sentinel and every year
\* that occurs in date_of_admission
YearOptions(t) ==
    {SemuaTahun} \cup
    {YearOf(r.date_of_admission) : r \in {x \in Range(t.rows) : ~IsNull(x.date_of_admission)}}

\* options of the "Kondisi Kesehatan" selectbox
ConditionOptions(t) ==
    {SemuaKondisi} \cup {r.medical_condition : r \in Range(t.rows)}

AgeMin(t) == CHOOSE a \in {r.age : r \in Range(t.rows)} :
                 \A b \in {r.age : r \in Range(t.rows)} : a <= b
AgeMax(t) == CHOOSE a \in {r.age : r \in Range(t.rows)} :
                 \A b \in {r.age : r \in Range(t.rows)} : a >= b

\* st.slider widens [min_value, max_value] so that the default value lies
\* inside it (it does not raise when the data range is narrower than 13..89)
SliderMin(t) == IF AgeMin(t) < DefaultAgeRange[1] THEN AgeMin(t) ELSE DefaultAgeRange[1]
SliderMax(t) == IF AgeMax(t) > DefaultAgeRange[2] THEN AgeMax(t) ELSE DefaultAgeRange[2]

\* the slider positions explored: the ages that occur in the table
SliderStops(t) ==
    {a \in {r.age : r \in Range(t.rows)} : SliderMin(t) <= a /\ a <= SliderMax(t)}

(* ---------------- Apply filters (lines 89-95) ---------------- *)
\* variant: the run keeps narrowing the view of the run before it
CopyOfPreviousView(loaded, previous_view) ==
    IF pc = "start" THEN loaded ELSE previous_view

\* line 90: filtered_df = df.copy()
CopyOfDf(loaded, previous_view) == loaded

FilterYear(t, yf) ==
    IF yf # SemuaTahun
    THEN LET keep(r) == YearOf(r.date_of_admission) = yf IN [t EXCEPT !.rows = SelectSeq(t.rows, keep)]
    ELSE t

\* variant: the condition mask is applied to the loaded table again, which
\* discards the filtering done so far
FilterConditionFromSource(t, cf) ==
    IF cf # SemuaKondisi
    THEN LET keep(r) == r.medical_condition = cf IN [columns |-> t.columns, rows |-> SelectSeq(load_data(csv).rows, keep)]
    ELSE t

FilterCondition(t, cf) ==
    IF cf # SemuaKondisi
    THEN LET keep(r) == r.medical_condition = cf IN [t EXCEPT !.rows = SelectSeq(t.rows, keep)]
    ELSE t

\* variant: the upper end of the age range is exclusive
FilterAgeBelow(t, ar) ==
    LET keep(r) == r.age >= ar[1] /\ r.age < ar[2] IN [t EXCEPT !.rows = SelectSeq(t.rows, keep)]

\* variant: the range slices the rows by position, filtered_df[lo:hi]
FilterAgeSlice(t, ar) ==
    LET hi == IF ar[2] < Len(t.rows) THEN ar[2] ELSE Len(t.rows)
    IN [columns |-> t.columns, rows |-> SubSeq(t.rows, ar[1] + 1, hi)]

FilterAge(t, ar) ==
    LET keep(r) == r.age >= ar[1] /\ r.age <= ar[2] IN [t EXCEPT !.rows = SelectSeq(t.rows, keep)]

ApplyFilters(t, yf, cf, ar) == FilterAge(FilterCondition(FilterYear(t, yf), cf), ar)

(* ---------------- Quick Stats (lines 97-117) ---------------- *)
\* Series.mean(): missing cells are skipped; no cell left gives NaN
Mean(cells) ==
    LET present == SelectSeq(cells, LAMBDA c : ~IsNull(c))
    IN IF Len(present) = 0
       THEN NaN
       ELSE <<SumSeq([i \in 1..Len(present) |-> present[i][1]]), Len(present)>>

Scale100(m) == IF IsNull(m) THEN NaN ELSE <<100 * m[1], m[2]>>

AvgStay(t) == Mean([i \in 1..Len(t.rows) |-> t.rows[i].length_of_stay])
AvgBill(t) == Mean([i \in 1..Len(t.rows) |-> Some(t.rows[i].billing_amount)])
RecoveryRate(t) ==
    Scale100(Mean([i \in 1..Len(t.rows) |->
        Some(IF t.rows[i].test_results = "Normal" THEN 1 ELSE 0)]))

\* what an f-string number format shows for the value
Formatted(x) == IF IsNull(x) THEN "nan" ELSE "number"

(* ---------------- page outputs ---------------- *)
\* a name the script run did not bind / did bind to v
Unbound == [bound |-> FALSE]
Bound(v) == [bound |-> TRUE, v |-> v]

\* "Tren Penyakit", lines 156-162: value_counts() of the conditions of the
\* view and, inside the loop, count / len(filtered_df) * 100
TopPercentages(t) ==
    LET conds == {r.medical_condition : r \in Range(t.rows)}
        count(c) == Cardinality({i \in 1..Len(t.rows) : t.rows[i].medical_condition = c})
    IN [c \in conds |-> <<100 * count(c), Len(t.rows)>>]

\* "Perbandingan Demografis Pasien", lines 302-305
age_bins == <<0, 18, 35, 50, 65, 100>>
age_labels == <<"Anak (0-18)", "Dewasa Muda (19-35)", "Dewasa (36-50)",
                "Lansia (51-65)", "Manula (65+)">>

\* variant: right=False, the position is the number of edges at or below x
CutLeftClosed(x, bins, labels) ==
    LET ids == Cardinality({j \in 1..Len(bins) : bins[j] <= x})
    IN IF ids = 0 \/ ids = Len(bins) THEN NaN ELSE Some(labels[ids])

\* pd.cut(x, bins, labels) with the default right=True: the position of x
\* among the edges is the number of edges strictly below it
\* (searchsorted side='left'); positions 0 and len(bins) have no label
Cut(x, bins, labels) ==
    LET ids == Cardinality({j \in 1..Len(bins) : bins[j] < x})
    IN IF ids = 0 \/ ids = Len(bins) THEN NaN ELSE Some(labels[ids])

\* variant: the column is assigned to the loaded table
AgeGroupOnSource == "df"

\* line 305 assigns the new column to this frame
AgeGroupTarget == "filtered_df"

WithAgeGroups(t) ==
    [columns |-> t.columns \cup {"kelompok_usia"},
     rows |-> [i \in 1..Len(t.rows) |->
                 [t.rows[i] EXCEPT !.kelompok_usia = Cut(t.rows[i].age, age_bins, age_labels)]]]

\* line 307: value_counts() of a categorical column counts every category
\* and leaves the missing cells out
AgeCounts(t) ==
    [l \in Range(age_labels) |->
        Cardinality({i \in 1..Len(t.rows) : t.rows[i].kelompok_usia = Some(l)})]

\* lines 370-378; the model has fewer than 8 hospitals, so nlargest(8)
\* keeps every hospital of the view.  numpy gives nan for 0 / 0.
PercentageOfTotal(t) ==
    LET total_patients == Len(t.rows)
        hospitals == {r.hospital : r \in Range(t.rows)}
        top_hospitals_total_patients ==
            Cardinality({i \in 1..Len(t.rows) : t.rows[i].hospital \in hospitals})
    IN IF total_patients = 0
       THEN NaN
       ELSE <<100 * top_hospitals_total_patients, total_patients>>

(* ---------------- one run of the script ---------------- *)
EmptyFrame == [columns |-> {}, rows |-> <<>>]

\* the script raises at line 84 (int() of the NaN minimum of an empty
\* column) before any filtering
Raises(t) == Len(t.rows) = 0

Script(table, yf, cf, ar, focus) ==
    LET view == ApplyFilters(CopyOfDf(table, filtered_df), yf, cf, ar)
        grouped == WithAgeGroups(view)
    IN /\ pc' = "ready"
       /\ cache' = table
       /\ df' = IF focus = Demografis /\ AgeGroupTarget = "df"
                THEN WithAgeGroups(table) ELSE table
       /\ year_filter' = yf
       /\ condition_filter' = cf
       /\ age_range' = ar
       /\ analysis_focus' = focus
       /\ filtered_df' = IF focus = Demografis /\ AgeGroupTarget = "filtered_df"
                         THEN grouped ELSE view
       /\ avg_stay' = AvgStay(view)
       /\ avg_bill' = AvgBill(view)
       /\ recovery_rate' = RecoveryRate(view)
       /\ top_percentages' = IF focus = FirstPage THEN Bound(TopPercentages(view)) ELSE Unbound
       /\ fig_age' = IF focus = Demografis THEN Bound(AgeCounts(grouped)) ELSE Unbound
       /\ percentage_of_total' = IF focus = Demografis
                                 THEN Bound(PercentageOfTotal(view)) ELSE Unbound
       /\ UNCHANGED csv

\* first run of a session: load_data() misses the cache and reads the file;
\* every widget has its default value
Start ==
    /\ pc = "start"
    /\ LET table == load_data(csv)
       IN IF Raises(table)
          THEN /\ pc' = "crashed"
               /\ cache' = table
               /\ df' = table
               /\ UNCHANGED <<csv, analysis_focus, year_filter, condition_filter,
                              age_range, filtered_df, avg_stay, avg_bill,
                              recovery_rate, top_percentages, fig_age,
                              percentage_of_total>>
          ELSE Script(table, SemuaTahun, SemuaKondisi, DefaultAgeRange, FirstPage)

\* the user changes one widget; the script reruns with the cached table
SelectYear ==
    /\ pc = "ready"
    /\ \E yf \in YearOptions(cache) \ {year_filter} :
          Script(cache, yf, condition_filter, age_range, analysis_focus)

SelectCondition ==
    /\ pc = "ready"
    /\ \E cf \in ConditionOptions(cache) \ {condition_filter} :
          Script(cache, year_filter, cf, age_range, analysis_focus)

SlideAge ==
    /\ pc = "ready"
    /\ \E lo \in SliderStops(cache), hi \in SliderStops(cache) :
          /\ lo <= hi
          /\ <<lo, hi>> # age_range
          /\ Script(cache, year_filter, condition_filter, <<lo, hi>>, analysis_focus)

SelectPage ==
    /\ pc = "ready"
    /\ \E focus \in Pages \ {analysis_focus} :
          Script(cache, year_filter, condition_filter, age_range, focus)

Next == Start \/ SelectYear \/ SelectCondition \/ SlideAge \/ SelectPage

(* ---------------- the input files explored ---------------- *)
CsvRow(adm, dis, age, cond, bill) ==
    [date_of_admission |-> adm, discharge_date |-> dis, age |-> age,
     medical_condition |-> cond, billing_amount |-> bill,
     test_results |-> "Normal", hospital |-> "RS Harapan"]

\* files whose rows differ in admission year, condition and age
FilterRows ==
    {CsvRow(adm, <<2023, 6, 1>>, age, cond, 200) :
        adm \in {<<2022, 5, 20>>, <<2023, 5, 20>>, <<2023, 2, 30>>},
        age \in {1, 50},
        cond \in {"Diabetes", "Asthma"}}

\* files whose rows differ in the two date cells and the billing amount
LoadRows ==
    {CsvRow(adm, dis, 30, "Diabetes", bill) :
        adm \in {<<2023, 12, 30>>, <<2023, 2, 30>>},
        dis \in {<<2024, 3, 1>>, <<2023, 12, 28>>, <<0, 0, 0>>},
        bill \in {-500, 0, 200}}

\* files whose rows differ in age only
AgeRows ==
    {CsvRow(<<2022, 5, 20>>, <<2022, 6, 1>>, age, "Diabetes", 200) :
        age \in {0, 18, 19, 100, 101}}

InitWith(rows) ==
    /\ pc = "start"
    /\ csv \in SeqsUpTo(rows, MaxRows)
    /\ cache = EmptyFrame
    /\ df = EmptyFrame
    /\ analysis_focus = FirstPage
    /\ year_filter = SemuaTahun
    /\ condition_filter = SemuaKondisi
    /\ age_range = DefaultAgeRange
    /\ filtered_df = EmptyFrame
    /\ avg_stay = NaN
    /\ avg_bill = NaN
    /\ recovery_rate = NaN
    /\ top_percentages = Unbound
    /\ fig_age = Unbound
    /\ percentage_of_total = Unbound

Init == InitWith(FilterRows)
InitLoad == InitWith(LoadRows)
InitAges == InitWith(AgeRows)

Spec == Init /\ [][Next]_vars
SpecLoad == InitLoad /\ [][Next]_vars
SpecAges == InitAges /\ [][Next]_vars

(* ======================= properties ======================= *)
Loaded == load_data(csv)
View == filtered_df.rows
Indices(rows) == [i \in 1..Len(rows) |-> rows[i].index]

\* the cells of a view row are those of the loaded row with the same index
SameCells(r) ==
    \E i \in 1..Len(Loaded.rows) :
        /\ Loaded.rows[i].index = r.index
        /\ [r EXCEPT !.kelompok_usia = NaN] = Loaded.rows[i]

\* the three predicates of the current widget values, on one loaded row
YearHolds(r) ==
    \/ year_filter = SemuaTahun
    \/ /\ r.date_of_admission # NaT
       /\ r.date_of_admission[1] = year_filter[1]
ConditionHolds(r) ==
    condition_filter = SemuaKondisi \/ r.medical_condition = condition_filter
AgeHolds(r) == age_range[1] <= r.age /\ r.age <= age_range[2]

\* C1: the filtered view holds exactly the loaded rows for which the year,
\* condition and inclusive age-range predicates all hold, each row once and
\* with its loaded cells.
C1_ViewIsConjunction ==
    pc = "ready" =>
        LET sat == {i \in 1..Len(Loaded.rows) :
                       /\ YearHolds(Loaded.rows[i])
                       /\ ConditionHolds(Loaded.rows[i])
                       /\ AgeHolds(Loaded.rows[i])}
        IN /\ {r.index : r \in Range(View)} = sat
           /\ Len(View) = Cardinality(sat)
           /\ \A r \in Range(View) : SameCells(r)

\* a view where all three predicates are active and rows were both kept and
\* removed, one of the kept rows sitting on the upper end of the age range
C1_Witness ==
    /\ pc = "ready"
    /\ year_filter # SemuaTahun
    /\ condition_filter # SemuaKondisi
    /\ Len(View) > 0
    /\ Len(View) < Len(Loaded.rows)
    /\ \E r \in Range(View) : r.age = age_range[2]

\* C8: the six orders of applying the year, condition and age filters to
\* the loaded table give the records of the view the script computed.
C8_OrderIrrelevant ==
    pc = "ready" =>
        LET Y(t) == FilterYear(t, year_filter)
            C(t) == FilterCondition(t, condition_filter)
            A(t) == FilterAge(t, age_range)
            shown == Indices(View)
        IN /\ Indices(A(C(Y(Loaded))).rows) = shown
           /\ Indices(C(A(Y(Loaded))).rows) = shown
           /\ Indices(A(Y(C(Loaded))).rows) = shown
           /\ Indices(Y(A(C(Loaded))).rows) = shown
           /\ Indices(C(Y(A(Loaded))).rows) = shown
           /\ Indices(Y(C(A(Loaded))).rows) = shown

\* the year and the condition filter are both active and each one alone
\* keeps a row that the view does not have
C8_Witness ==
    /\ pc = "ready"
    /\ year_filter # SemuaTahun
    /\ condition_filter # SemuaKondisi
    /\ Len(FilterYear(Loaded, year_filter).rows) > Len(View)
    /\ Len(FilterCondition(Loaded, condition_filter).rows) > Len(View)
    /\ Len(View) > 0

\* C9: filtering the filtered view again by the same predicates returns the
\* same records.
C9_Idempotent ==
    pc = "ready" =>
        ApplyFilters(filtered_df, year_filter, condition_filter, age_range).rows = View

\* a view that kept some rows and removed others, with a condition selected
\* and the age range moved away from its default
C9_Witness ==
    /\ pc = "ready"
    /\ condition_filter # SemuaKondisi
    /\ age_range # DefaultAgeRange
    /\ Len(View) > 0
    /\ Len(View) < Len(Loaded.rows)

\* C10: after any sequence of widget changes the view is the loaded table
\* filtered by the current widget values only.
C10_ViewFromCurrentValues ==
    pc = "ready" =>
        Indices(View) =
            Indices(ApplyFilters(Loaded, year_filter, condition_filter, age_range).rows)

\* the age range was widened below its initial lower end: the view shows a
\* record younger than 13, which the view of the first run (range 13..89)
\* did not have, next to a record the first run did have
C10_Witness ==
    /\ pc = "ready"
    /\ age_range[1] < DefaultAgeRange[1]
    /\ \E r \in Range(View) : r.age < DefaultAgeRange[1]
    /\ \E r \in Range(View) : r.age >= DefaultAgeRange[1] /\ r.age <= DefaultAgeRange[2]

\* C5: once loaded, the table (the cached one and the script's df) is not
\* changed by any rerun.
C5_LoadedTableUnchanged ==
    [][pc # "start" => (df' = df /\ cache' = cache)]_vars

\* the demographics page added the age-group column to a view that is
\* smaller than the loaded table, which has no such column
C5_Witness ==
    /\ pc = "ready"
    /\ analysis_focus = Demografis
    /\ "kelompok_usia" \in filtered_df.columns
    /\ "kelompok_usia" \notin df.columns
    /\ Len(View) > 0
    /\ Len(View) < Len(df.rows)
    /\ df = Loaded
    /\ \E r \in Range(View) : r.kelompok_usia # NaN

(* ---------------- load step ---------------- *)
\* C6: the loaded billing amount of every record is max(raw amount, 0):
\* never negative, the raw amount when that is >= 0, and 0 when it is
\* negative; no record is removed by the cleaning.
C6_BillingFloored ==
    pc # "start" =>
        /\ Len(df.rows) = Len(csv)
        /\ \A i \in 1..Len(csv) :
              LET raw == csv[i].billing_amount
                  clean == df.rows[i].billing_amount
              IN /\ clean >= 0
                 /\ raw >= 0 => clean = raw
                 /\ raw < 0 => clean = 0

\* a loaded file with a negative raw amount, kept as a record with amount 0
C6_Witness ==
    /\ pc = "ready"
    /\ \E i \in 1..Len(csv) :
          /\ csv[i].billing_amount = -500
          /\ df.rows[i].billing_amount = 0
          /\ \E r \in Range(View) : r.index = i

\* calendar arithmetic by stepping one day at a time
MonthLengths == <<31, 28, 31, 30, 31, 30, 31, 31, 30, 31, 30, 31>>
LastDay(y, m) ==
    IF m = 2 /\ y % 4 = 0 /\ (y % 100 # 0 \/ y % 400 = 0) THEN 29 ELSE MonthLengths[m]
NextDay(d) ==
    IF d[3] < LastDay(d[1], d[2]) THEN <<d[1], d[2], d[3] + 1>>
    ELSE IF d[2] < 12 THEN <<d[1], d[2] + 1, 1>>
    ELSE <<d[1] + 1, 1, 1>>
OnCalendar(text) ==
    /\ text[1] >= 1
    /\ text[2] >= 1
    /\ text[2] <= 12
    /\ text[3] >= 1
    /\ text[3] <= LastDay(text[1], text[2])
Earlier(a, b) ==
    \/ a[1] < b[1]
    \/ a[1] = b[1] /\ a[2] < b[2]
    \/ a[1] = b[1] /\ a[2] = b[2] /\ a[3] < b[3]
RECURSIVE DaysFromTo(_, _)
DaysFromTo(a, b) == IF a = b THEN 0 ELSE 1 + DaysFromTo(NextDay(a), b)
WholeDays(admission, discharge) ==
    IF Earlier(discharge, admission)
    THEN 0 - DaysFromTo(discharge, admission)
    ELSE DaysFromTo(admission, discharge)

\* C7: length_of_stay of a record is missing exactly when one of its two
\* date cells did not parse; when both parsed it is the number of whole
\* days from admission to discharge; a date that does not parse does not
\* stop the load (every record of the file is in the table).
C7_StayNullIffDateUnparsed ==
    pc # "start" =>
        /\ Len(df.rows) = Len(csv)
        /\ \A i \in 1..Len(csv) :
              LET r == df.rows[i]
                  failed == \/ ~OnCalendar(csv[i].date_of_admission)
                            \/ ~OnCalendar(csv[i].discharge_date)
              IN /\ (r.length_of_stay = NaN) <=> failed
                 /\ ~failed => r.length_of_stay =
                        Some(WholeDays(csv[i].date_of_admission, csv[i].discharge_date))

\* a loaded file with a record whose admission cell "2023-02-30" did not
\* parse and a record whose stay crosses the leap day of 2024
C7_Witness ==
    /\ pc = "ready"
    /\ \E i \in 1..Len(csv) :
          /\ csv[i].date_of_admission = <<2023, 2, 30>>
          /\ df.rows[i].date_of_admission = NaT
          /\ df.rows[i].length_of_stay = NaN
    /\ \E i \in 1..Len(csv) : df.rows[i].length_of_stay = Some(62)

(* ---------------- bucketing ---------------- *)
OnAgePage == pc = "ready" /\ analysis_focus = Demografis

ReportedUnbucketed(chart) ==
    IF "unbucketed" \in DOMAIN chart THEN chart["unbucketed"] ELSE 0

C4_RowsConserved ==
    OnAgePage =>
        /\ fig_age.bound
        /\ SumSeq([i \in 1..Len(age_labels) |-> fig_age.v[age_labels[i]]])
              + ReportedUnbucketed(fig_age.v) = Len(View)

(* ---------------- empty view ---------------- *)
\* C3: with an empty view every mean and percentage that is shown is shown
\* as "no data".
C3_EmptyViewNoData ==
    (pc = "ready" /\ Len(View) = 0) =>
        /\ Formatted(avg_stay) = "no data"
        /\ Formatted(avg_bill) = "no data"
        /\ Formatted(recovery_rate) = "no data"
        /\ percentage_of_total.bound => Formatted(percentage_of_total.v) = "no data"

====
